---- MODULE Spec2Model ----
(***************************************************************************)
(* Model of radar_simconfig.py: the module-level configuration globals,    *)
(* the derived constants computed once at import, and the helper           *)
(* functions.                                                              *)
(*                                                                         *)
(* Numbers.  A Python float is modelled by the real number it stands for,  *)
(* held exactly: every value the helpers compute before the logarithm is a *)
(* product of integers, powers of ten, np.pi and 10**0.5, so a finite      *)
(* number is the record                                                    *)
(*     s * (n / d) * 2^e2 * 5^e5 * pi^pi * sqrt(10)^h                      *)
(* in normal form (n, d coprime and coprime to 10, h in {0,1}).  Rounding  *)
(* to 53 bits is not modelled.  np.log10 is computed numerically, in fixed *)
(* point with LogScale fractional steps, and returns -inf for 0 and nan    *)
(* for a negative argument, as numpy does (with a RuntimeWarning, which is *)
(* not an exception).  A Python float division by zero raises              *)
(* ZeroDivisionError.                                                      *)
(***************************************************************************)
EXTENDS Integers, Sequences, FiniteSets, TLC

VARIABLES
    SPEED_OF_LIGHT, BOLTZMANN_CONSTANT,
    CARRIER_FREQUENCY, PULSE_WIDTH, PRF, PRI, TRANSMIT_POWER,
    SAMPLING_FREQUENCY, NOISE_FIGURE_DB, SYSTEM_TEMPERATURE,
    SAMPLES_PER_PULSE,
    last

globals == <<SPEED_OF_LIGHT, BOLTZMANN_CONSTANT, CARRIER_FREQUENCY, PULSE_WIDTH,
             PRF, PRI, TRANSMIT_POWER, SAMPLING_FREQUENCY, NOISE_FIGURE_DB,
             SYSTEM_TEMPERATURE, SAMPLES_PER_PULSE>>

vars == <<globals, last>>

-----------------------------------------------------------------------------
(* Bounds of the inputs the callers pass.                                  *)

\* ranges passed are r * 1000 m for r in -MaxRange .. MaxRange
MaxRange == 4
\* radar cross sections passed are 10 * i m^2 for i in -1 .. MaxRcs
MaxRcs == 1
\* range factors k of the scaling law are 1 .. MaxFactor, and 10
MaxFactor == 4
\* decibel values passed are 5 * i for i in -MaxDb .. MaxDb
MaxDb == 3

-----------------------------------------------------------------------------
(* Exact arithmetic on the numbers.                                        *)

Abs(i) == IF i < 0 THEN -i ELSE i

Sgn(i) == IF i < 0 THEN -1 ELSE IF i = 0 THEN 0 ELSE 1

RECURSIVE GCD(_, _)
GCD(a, b) == IF b = 0 THEN a ELSE GCD(b, a % b)

\* the exponent of the prime p in the positive integer m
RECURSIVE Val(_, _)
Val(p, m) == IF m % p = 0 THEN 1 + Val(p, m \div p) ELSE 0

RECURSIVE IPow(_, _)
IPow(b, k) == IF k = 0 THEN 1 ELSE b * IPow(b, k - 1)

Zero == [k |-> "fin", s |-> 0, n |-> 0, d |-> 1, e2 |-> 0, e5 |-> 0, pi |-> 0, h |-> 0]

NegInf == [k |-> "-inf", s |-> -1, n |-> 0, d |-> 1, e2 |-> 0, e5 |-> 0, pi |-> 0, h |-> 0]

NaN == [k |-> "nan", s |-> 0, n |-> 0, d |-> 1, e2 |-> 0, e5 |-> 0, pi |-> 0, h |-> 0]

\* the normal form of  s * (n/d) * 2^e2 * 5^e5 * pi^p * sqrt(10)^h,  n, d > 0
Norm(s, n, d, e2, e5, p, h) ==
    LET g  == GCD(n, d)
        n1 == n \div g
        d1 == d \div g
        a2 == Val(2, n1)
        a5 == Val(5, n1)
        b2 == Val(2, d1)
        b5 == Val(5, d1)
        hq == h \div 2
    IN  [k  |-> "fin", s |-> s,
         n  |-> n1 \div (IPow(2, a2) * IPow(5, a5)),
         d  |-> d1 \div (IPow(2, b2) * IPow(5, b5)),
         e2 |-> e2 + a2 - b2 + hq,
         e5 |-> e5 + a5 - b5 + hq,
         pi |-> p,
         h  |-> h % 2]

FromInt(i) == IF i = 0 THEN Zero ELSE Norm(Sgn(i), Abs(i), 1, 0, 0, 0, 0)

\* the literal  m e x,  m * 10^x
Sci(m, x) == IF m = 0 THEN Zero ELSE Norm(Sgn(m), Abs(m), 1, x, x, 0, 0)

\* np.pi
NP_PI == [k |-> "fin", s |-> 1, n |-> 1, d |-> 1, e2 |-> 0, e5 |-> 0, pi |-> 1, h |-> 0]

\* a * b; the product of two normal forms has no factor 2 or 5 left in n or d
Mul(a, b) ==
    IF a.s = 0 \/ b.s = 0 THEN Zero
    ELSE LET n  == a.n * b.n
             d  == a.d * b.d
             g  == GCD(n, d)
             hq == (a.h + b.h) \div 2
         IN  [k  |-> "fin", s |-> a.s * b.s,
              n  |-> n \div g,
              d  |-> d \div g,
              e2 |-> a.e2 + b.e2 + hq,
              e5 |-> a.e5 + b.e5 + hq,
              pi |-> a.pi + b.pi,
              h  |-> (a.h + b.h) % 2]

\* 1 / a, for a # 0
Inv(a) ==
    [k  |-> "fin", s |-> a.s, n |-> a.d, d |-> a.n,
     e2 |-> -a.e2 - a.h, e5 |-> -a.e5 - a.h, pi |-> -a.pi, h |-> a.h]

\* a / b, for b # 0
Div(a, b) == Mul(a, Inv(b))

\* a ** k for an integer k >= 0
RECURSIVE Pow(_, _)
Pow(a, k) == IF k = 0 THEN FromInt(1) ELSE IF k = 1 THEN a ELSE Mul(a, Pow(a, k - 1))

Neg(a) == IF a.s = 0 THEN a ELSE [a EXCEPT !.s = -a.s]

\* the integer part of |a|, for a rational a (pi = 0, h = 0)
Magnitude(a) ==
    (a.n * IPow(2, IF a.e2 > 0 THEN a.e2 ELSE 0) * IPow(5, IF a.e5 > 0 THEN a.e5 ELSE 0))
    \div
    (a.d * IPow(2, IF a.e2 < 0 THEN -a.e2 ELSE 0) * IPow(5, IF a.e5 < 0 THEN -a.e5 ELSE 0))

\* a < b for finite rationals a, b
Less(a, b) ==
    LET m2 == IF a.e2 < b.e2 THEN a.e2 ELSE b.e2
        m5 == IF a.e5 < b.e5 THEN a.e5 ELSE b.e5
        A  == a.s * a.n * b.d * IPow(2, a.e2 - m2) * IPow(5, a.e5 - m5)
        B  == b.s * b.n * a.d * IPow(2, b.e2 - m2) * IPow(5, b.e5 - m5)
    IN  IF a.s = 0 THEN b.s > 0
        ELSE IF b.s = 0 THEN a.s < 0
        ELSE IF a.s # b.s THEN a.s < b.s
        ELSE A < B

-----------------------------------------------------------------------------
(* np.log10, computed in fixed point: a logarithm is an integer number of  *)
(* steps of 1/LogScale.                                                    *)

LogScale == 2^10

\* floor(log2 m) for an integer m >= 1
RECURSIVE ILog2(_)
ILog2(m) == IF m < 2 THEN 0 ELSE 1 + ILog2(m \div 2)

\* the fractional bits of log2 of the mantissa m (LogScale <= m < 2*LogScale),
\* by repeated squaring; w is the weight of the next bit
RECURSIVE Log2Frac(_, _)
Log2Frac(m, w) ==
    IF w = 0 THEN 0
    ELSE LET q == (m * m) \div LogScale
         IN  IF q >= 2 * LogScale
             THEN w + Log2Frac(q \div 2, w \div 2)
             ELSE Log2Frac(q, w \div 2)

\* log2 of an integer m >= 1
Log2Fix(m) ==
    LET k    == ILog2(m)
        mant == IF m >= LogScale THEN m \div (IPow(2, k) \div LogScale)
                ELSE (m * LogScale) \div IPow(2, k)
    IN  k * LogScale + Log2Frac(mant, LogScale \div 2)

Log2Of5 == Log2Fix(5)

Log2Of10 == Log2Fix(10)

\* np.pi is taken as 355/113
Log2OfPi == Log2Fix(355) - Log2Fix(113)

\* log2 of a finite number a > 0
Log2Num(a) ==
    Log2Fix(a.n) - Log2Fix(a.d) + a.e2 * LogScale + a.e5 * Log2Of5
    + a.pi * Log2OfPi + (a.h * Log2Of10) \div 2

FixToNum(v) == IF v = 0 THEN Zero ELSE Norm(Sgn(v), Abs(v), LogScale, 0, 0, 0, 0)

\* np.log10(a): -inf at 0 and nan below 0 (a RuntimeWarning, no exception)
np_log10(a) ==
    IF a.k = "nan" THEN NaN
    ELSE IF a.s = 0 THEN NegInf
    ELSE IF a.s < 0 THEN NaN
    ELSE FixToNum((Log2Num(a) * LogScale) \div Log2Of10)

\* 10 ** x for a rational x with 2x an integer
PowTen(x) ==
    LET t == Mul(x, FromInt(2))
    IN  Norm(1, 1, 1, 0, 0, 0, t.s * Magnitude(t))

\* int(a): truncation toward zero
PyInt(a) == FromInt(a.s * Magnitude(a))

-----------------------------------------------------------------------------
(* What a call gives its caller: a returned value or a raised exception.   *)

Return(v) == [outcome |-> "returned", value |-> v]

Raise(e) == [outcome |-> e, value |-> Zero]

\* Python's a / b on floats
PyDiv(a, b) == IF b.s = 0 THEN Raise("ZeroDivisionError") ELSE Return(Div(a, b))

-----------------------------------------------------------------------------
(* The helper functions.                                                   *)

range_to_time_delay(range_m) ==
    PyDiv(Mul(FromInt(2), range_m), SPEED_OF_LIGHT)

\* the division by two left out: the one-way distance
time_delay_to_range_oneway(delay_s) ==
    Return(Mul(delay_s, SPEED_OF_LIGHT))

time_delay_to_range(delay_s) ==
    PyDiv(Mul(delay_s, SPEED_OF_LIGHT), FromInt(2))

db_to_linear(db_value) ==
    Return(PowTen(Div(db_value, FromInt(10))))

linear_to_db(linear_value) ==
    LET l == np_log10(linear_value)
    IN  Return(IF l.k = "fin" THEN Mul(FromInt(10), l) ELSE l)

\* the bandwidth evaluated once, at import, from the pulse width of that moment
calculate_thermal_noise_power_cached ==
    Return(Mul(Mul(Mul(BOLTZMANN_CONSTANT, SYSTEM_TEMPERATURE),
                   Div(FromInt(1), Sci(1, -6))),
               db_to_linear(NOISE_FIGURE_DB).value))

calculate_thermal_noise_power ==
    LET bandwidth == PyDiv(FromInt(1), PULSE_WIDTH)
        noise_figure_linear == db_to_linear(NOISE_FIGURE_DB)
    IN  IF bandwidth.outcome # "returned" THEN bandwidth
        ELSE Return(Mul(Mul(Mul(BOLTZMANN_CONSTANT, SYSTEM_TEMPERATURE),
                            bandwidth.value),
                        noise_figure_linear.value))

NoLocals == [wavelength |-> Zero, noise_power |-> Zero, snr_linear |-> Zero]

radar_numerator(wavelength, target_rcs) ==
    Mul(Mul(TRANSMIT_POWER, Pow(wavelength, 2)), target_rcs)

\* a wrong exponent: inverse-square law
radar_denominator_square(target_range, noise_power) ==
    Mul(Mul(Pow(Mul(FromInt(4), NP_PI), 3), Pow(target_range, 2)), noise_power)

\* a wrong exponent: an odd power of the range
radar_denominator_cube(target_range, noise_power) ==
    Mul(Mul(Pow(Mul(FromInt(4), NP_PI), 3), Pow(target_range, 3)), noise_power)

\* the range factor left out
radar_denominator_norange(target_range, noise_power) ==
    Mul(Pow(Mul(FromInt(4), NP_PI), 3), noise_power)

radar_denominator(target_range, noise_power) ==
    Mul(Mul(Pow(Mul(FromInt(4), NP_PI), 3), Pow(target_range, 4)), noise_power)

\* the call's outcome together with the locals it had computed by then
snr_from_range(target_range, target_rcs) ==
    LET wavelength  == PyDiv(SPEED_OF_LIGHT, CARRIER_FREQUENCY)
        noise_power == calculate_thermal_noise_power
        numerator   == radar_numerator(wavelength.value, target_rcs)
        denominator == radar_denominator(target_range, noise_power.value)
        snr_linear  == PyDiv(numerator, denominator)
    IN  IF wavelength.outcome # "returned"
        THEN [res |-> wavelength, locals |-> NoLocals]
        ELSE IF noise_power.outcome # "returned"
        THEN [res |-> noise_power,
              locals |-> [NoLocals EXCEPT !.wavelength = wavelength.value]]
        ELSE IF snr_linear.outcome # "returned"
        THEN [res |-> snr_linear,
              locals |-> [wavelength |-> wavelength.value,
                          noise_power |-> noise_power.value,
                          snr_linear |-> Zero]]
        ELSE [res |-> linear_to_db(snr_linear.value),
              locals |-> [wavelength |-> wavelength.value,
                          noise_power |-> noise_power.value,
                          snr_linear |-> snr_linear.value]]

calculate_snr_from_range(target_range, target_rcs) ==
    snr_from_range(target_range, target_rcs).res

-----------------------------------------------------------------------------
(* The arguments the callers pass.                                         *)

RangeInputs == { Sci(r, 3) : r \in -MaxRange .. MaxRange }

RcsInputs == { Sci(i, 1) : i \in -1 .. MaxRcs }

\* the two-way delays of the ranges above
DelayInputs == { Div(Mul(FromInt(2), r), Sci(3, 8)) : r \in RangeInputs }

DbInputs == { FromInt(5 * i) : i \in -MaxDb .. MaxDb }

LinearInputs == { FromInt(-1), Zero, FromInt(1), FromInt(2), Sci(1, 1), Sci(5, -1) }

\* the values a caller assigns to the configuration globals
PulseWidthValues == { Sci(1, -6), Sci(2, -6), Zero, Sci(-1, -6) }

PrfValues == { FromInt(1000), FromInt(2000) }

SamplingFrequencyValues == { Sci(100, 9), Sci(50, 9) }

CarrierFrequencyValues == { Sci(10, 9), Sci(5, 9) }

-----------------------------------------------------------------------------
(* The module after import.                                                *)

Init ==
    /\ SPEED_OF_LIGHT = Sci(3, 8)
    /\ CARRIER_FREQUENCY = Sci(10, 9)
    /\ PULSE_WIDTH = Sci(1, -6)
    /\ PRF = FromInt(1000)
    /\ PRI = Div(FromInt(1), PRF)
    /\ TRANSMIT_POWER = Sci(1, 3)
    /\ SAMPLING_FREQUENCY = Sci(100, 9)
    /\ NOISE_FIGURE_DB = FromInt(5)
    /\ SYSTEM_TEMPERATURE = FromInt(290)
    /\ BOLTZMANN_CONSTANT = Sci(138, -25)
    /\ SAMPLES_PER_PULSE = PyInt(Mul(PULSE_WIDTH, SAMPLING_FREQUENCY))
    /\ last = [op |-> "none", args |-> <<>>, outcome |-> "none", value |-> Zero,
               locals |-> NoLocals]

\* the record of a call: what was called, with what, and what came back
Called(op, args, res, locals) ==
    [op |-> op, args |-> args, outcome |-> res.outcome, value |-> res.value,
     locals |-> locals]

-----------------------------------------------------------------------------
(* A caller assigns a configuration global of the module.  Nothing else is *)
(* recomputed: PRI and SAMPLES_PER_PULSE were evaluated at import.         *)

SetPULSE_WIDTH ==
    \E v \in PulseWidthValues \ {PULSE_WIDTH} :
        /\ PULSE_WIDTH' = v
        /\ UNCHANGED <<SPEED_OF_LIGHT, BOLTZMANN_CONSTANT, CARRIER_FREQUENCY, PRF, PRI,
                       TRANSMIT_POWER, SAMPLING_FREQUENCY, NOISE_FIGURE_DB,
                       SYSTEM_TEMPERATURE, SAMPLES_PER_PULSE, last>>

SetPRF ==
    \E v \in PrfValues \ {PRF} :
        /\ PRF' = v
        /\ UNCHANGED <<SPEED_OF_LIGHT, BOLTZMANN_CONSTANT, CARRIER_FREQUENCY, PULSE_WIDTH,
                       PRI, TRANSMIT_POWER, SAMPLING_FREQUENCY, NOISE_FIGURE_DB,
                       SYSTEM_TEMPERATURE, SAMPLES_PER_PULSE, last>>

SetSAMPLING_FREQUENCY ==
    \E v \in SamplingFrequencyValues \ {SAMPLING_FREQUENCY} :
        /\ SAMPLING_FREQUENCY' = v
        /\ UNCHANGED <<SPEED_OF_LIGHT, BOLTZMANN_CONSTANT, CARRIER_FREQUENCY, PULSE_WIDTH,
                       PRF, PRI, TRANSMIT_POWER, NOISE_FIGURE_DB, SYSTEM_TEMPERATURE,
                       SAMPLES_PER_PULSE, last>>

SetCARRIER_FREQUENCY ==
    \E v \in CarrierFrequencyValues \ {CARRIER_FREQUENCY} :
        /\ CARRIER_FREQUENCY' = v
        /\ UNCHANGED <<SPEED_OF_LIGHT, BOLTZMANN_CONSTANT, PULSE_WIDTH, PRF, PRI,
                       TRANSMIT_POWER, SAMPLING_FREQUENCY, NOISE_FIGURE_DB,
                       SYSTEM_TEMPERATURE, SAMPLES_PER_PULSE, last>>

-----------------------------------------------------------------------------
(* A caller calls a helper function.                                       *)

Call_range_to_time_delay ==
    \E r \in RangeInputs :
        /\ last' = Called("range_to_time_delay", <<r>>, range_to_time_delay(r), NoLocals)
        /\ UNCHANGED globals

Call_time_delay_to_range ==
    \E t \in DelayInputs :
        /\ last' = Called("time_delay_to_range", <<t>>, time_delay_to_range(t), NoLocals)
        /\ UNCHANGED globals

Call_db_to_linear ==
    \E x \in DbInputs :
        /\ last' = Called("db_to_linear", <<x>>, db_to_linear(x), NoLocals)
        /\ UNCHANGED globals

Call_linear_to_db ==
    \E x \in LinearInputs :
        /\ last' = Called("linear_to_db", <<x>>, linear_to_db(x), NoLocals)
        /\ UNCHANGED globals

\* the noise figure converted in place, in the module global
Call_calculate_thermal_noise_power_inplace ==
    /\ last' = Called("calculate_thermal_noise_power", <<>>,
                      calculate_thermal_noise_power, NoLocals)
    /\ NOISE_FIGURE_DB' = db_to_linear(NOISE_FIGURE_DB).value
    /\ UNCHANGED <<SPEED_OF_LIGHT, BOLTZMANN_CONSTANT, CARRIER_FREQUENCY, PULSE_WIDTH,
                   PRF, PRI, TRANSMIT_POWER, SAMPLING_FREQUENCY, SYSTEM_TEMPERATURE,
                   SAMPLES_PER_PULSE>>

Call_calculate_thermal_noise_power ==
    /\ last' = Called("calculate_thermal_noise_power", <<>>,
                      calculate_thermal_noise_power, NoLocals)
    /\ UNCHANGED globals

Call_calculate_snr_from_range ==
    \E r \in RangeInputs, rcs \in RcsInputs :
        LET c == snr_from_range(r, rcs)
        IN  /\ last' = Called("calculate_snr_from_range", <<r, rcs>>, c.res, c.locals)
            /\ UNCHANGED globals

Next ==
    \/ SetPULSE_WIDTH
    \/ SetPRF
    \/ SetSAMPLING_FREQUENCY
    \/ SetCARRIER_FREQUENCY
    \/ Call_range_to_time_delay
    \/ Call_time_delay_to_range
    \/ Call_db_to_linear
    \/ Call_linear_to_db
    \/ Call_calculate_thermal_noise_power
    \/ Call_calculate_snr_from_range

Spec == Init /\ [][Next]_vars

-----------------------------------------------------------------------------
(* Vocabulary of the properties.                                           *)

IsCalled(op) == last.op = op

Returned == last.outcome = "returned"

Finite(a) == a.k = "fin"

\* the wavelength and the noise power the last radar-equation call computed
\* are those a call would compute now: the link parameters are as they were
SameLink ==
    /\ PyDiv(SPEED_OF_LIGHT, CARRIER_FREQUENCY) = Return(last.locals.wavelength)
    /\ calculate_thermal_noise_power = Return(last.locals.noise_power)

\* the same call made again
Redo(c) ==
    IF c.op = "range_to_time_delay"
    THEN Called(c.op, c.args, range_to_time_delay(c.args[1]), NoLocals)
    ELSE IF c.op = "time_delay_to_range"
    THEN Called(c.op, c.args, time_delay_to_range(c.args[1]), NoLocals)
    ELSE IF c.op = "db_to_linear"
    THEN Called(c.op, c.args, db_to_linear(c.args[1]), NoLocals)
    ELSE IF c.op = "linear_to_db"
    THEN Called(c.op, c.args, linear_to_db(c.args[1]), NoLocals)
    ELSE IF c.op = "calculate_thermal_noise_power"
    THEN Called(c.op, c.args, calculate_thermal_noise_power, NoLocals)
    ELSE IF c.op = "calculate_snr_from_range"
    THEN Called(c.op, c.args, snr_from_range(c.args[1], c.args[2]).res,
                snr_from_range(c.args[1], c.args[2]).locals)
    ELSE c

Factors == (1 .. MaxFactor) \cup {10}

\* the quantities as the formulas define them, from the configuration of the state
DefWavelength == Div(SPEED_OF_LIGHT, CARRIER_FREQUENCY)

\* N = k T B F with B = 1 / pulse width and F = 10^(NF/10), for a pulse width # 0
DefNoisePower ==
    Div(Mul(Mul(BOLTZMANN_CONSTANT, SYSTEM_TEMPERATURE),
            PowTen(Div(NOISE_FIGURE_DB, FromInt(10)))),
        PULSE_WIDTH)

\* Pt lambda^2 sigma / ((4 pi)^3 R^4 N), for R # 0 and a pulse width # 0
DefSnrLinear(R, sigma) ==
    Div(Mul(Mul(TRANSMIT_POWER, Mul(DefWavelength, DefWavelength)), sigma),
        Mul(Mul(Mul(FromInt(64), Pow(NP_PI, 3)), Mul(Mul(R, R), Mul(R, R))),
            DefNoisePower))

-----------------------------------------------------------------------------
(* C1: every call of calculate_snr_from_range with targetRange <= 0 or     *)
(* targetRcs <= 0 fails with InvalidInputError and returns no SNR.         *)
(* The code has no such check: stated as the claim states it.              *)
C1_NonPositiveRejected ==
    (IsCalled("calculate_snr_from_range")
        /\ (last.args[1].s <= 0 \/ last.args[2].s <= 0))
    => last.outcome = "InvalidInputError"

(* C2: linear_to_db fails with InvalidInputError for every linearValue <= 0 *)
(* and returns a value only for a strictly positive argument.               *)
C2_LogNonPositiveRejected ==
    IsCalled("linear_to_db")
    => /\ last.args[1].s <= 0 => last.outcome = "InvalidInputError"
       /\ Returned => last.args[1].s > 0

(* C3: scaling law.  For a range R > 0 and a factor k > 0, under the same  *)
(* RCS, transmit power, wavelength and noise power, the linear SNR at k*R  *)
(* times k^4 is the linear SNR at R (k = 2: a factor 16; k = 10: 10^4).    *)
C3_FourthPowerLaw ==
    (IsCalled("calculate_snr_from_range") /\ Returned /\ last.args[1].s > 0 /\ SameLink)
    => \A k \in Factors :
          LET far == snr_from_range(Mul(FromInt(k), last.args[1]), last.args[2])
          IN  /\ far.res.outcome = "returned"
              /\ Mul(far.locals.snr_linear, Pow(FromInt(k), 4)) = last.locals.snr_linear

C3_Witness ==
    /\ IsCalled("calculate_snr_from_range") /\ Returned /\ SameLink
    /\ last.args = <<Sci(2, 3), Sci(1, 1)>>
    /\ Finite(last.value)
    /\ last.locals.snr_linear.s > 0
    /\ Mul(snr_from_range(Sci(4, 3), Sci(1, 1)).locals.snr_linear, FromInt(16))
         = last.locals.snr_linear
    /\ Mul(snr_from_range(Sci(20, 3), Sci(1, 1)).locals.snr_linear, Sci(1, 4))
         = last.locals.snr_linear

C5_NegativeRejected ==
    (IsCalled("range_to_time_delay") \/ IsCalled("time_delay_to_range"))
    => /\ last.args[1].s < 0 => last.outcome = "InvalidInputError"
       /\ Returned => last.value.s >= 0

(* C6: calculate_thermal_noise_power fails with InvalidInputError whenever *)
(* the pulse width it uses is <= 0, never returning a noise power nor      *)
(* raising another error.  Stated as the claim states it, on the step of   *)
(* the call.                                                               *)
C6_PulseWidthRejected ==
    [][ (last' # last /\ last'.op = "calculate_thermal_noise_power"
            /\ PULSE_WIDTH'.s <= 0)
        => last'.outcome = "InvalidInputError" ]_vars

(* C7: round trip.  For every range r >= 0 the delay range_to_time_delay   *)
(* returns is taken back to r by time_delay_to_range.                      *)
C7_RoundTrip ==
    /\ (IsCalled("range_to_time_delay") /\ last.args[1].s >= 0)
       => /\ Returned
          /\ time_delay_to_range(last.value) = Return(last.args[1])
    /\ IsCalled("time_delay_to_range")
       => \A r \in RangeInputs :
             (r.s >= 0 /\ range_to_time_delay(r) = Return(last.args[1]))
             => (Returned /\ last.value = r)

C7_Witness ==
    /\ IsCalled("time_delay_to_range") /\ Returned
    /\ last.args[1] = range_to_time_delay(Sci(4, 3)).value
    /\ last.args[1] = Div(Sci(8, 3), Sci(3, 8))
    /\ last.value = Sci(4, 3)

(* C8: monotonicity.  Under the same RCS > 0, transmit power, wavelength   *)
(* and noise power, for two ranges 0 < R1 < R2 the SNR returned at R2 is   *)
(* strictly lower than the SNR returned at R1.                             *)
C8_StrictlyDecreasing ==
    (IsCalled("calculate_snr_from_range") /\ Returned /\ Finite(last.value)
        /\ last.args[1].s > 0 /\ SameLink)
    => \A r2 \in RangeInputs :
          Less(last.args[1], r2)
          => LET far == calculate_snr_from_range(r2, last.args[2])
             IN  /\ far.outcome = "returned"
                 /\ Finite(far.value)
                 /\ Less(far.value, last.value)

C8_Witness ==
    /\ IsCalled("calculate_snr_from_range") /\ Returned /\ Finite(last.value) /\ SameLink
    /\ last.args = <<Sci(1, 3), Sci(1, 1)>>
    /\ Less(calculate_snr_from_range(Sci(2, 3), Sci(1, 1)).value, last.value)
    /\ Less(calculate_snr_from_range(Sci(3, 3), Sci(1, 1)).value,
            calculate_snr_from_range(Sci(2, 3), Sci(1, 1)).value)

(* C9: frame.  Every call, whether it returns or raises, leaves every      *)
(* configuration global and constant as it was, and the same call made     *)
(* again, on the configuration it left, gives the same outcome and value.  *)
C9_CallsChangeNothing ==
    [][ last' # last
        => /\ UNCHANGED globals
           /\ Redo(last') = last' ]_vars

C9_Witness ==
    /\ IsCalled("calculate_snr_from_range")
    /\ last.outcome = "ZeroDivisionError"
    /\ last.args[1] = Zero
    /\ PULSE_WIDTH = Sci(1, -6) /\ PRF = FromInt(1000)
    /\ CARRIER_FREQUENCY = Sci(10, 9) /\ SAMPLING_FREQUENCY = Sci(100, 9)
    /\ NOISE_FIGURE_DB = FromInt(5) /\ SPEED_OF_LIGHT = Sci(3, 8)

(* C10: sign of the range.  For every range R # 0 and the same RCS and     *)
(* link parameters, calculate_snr_from_range(-R, rcs) gives exactly what   *)
(* calculate_snr_from_range(R, rcs) gives.                                 *)
C10_RangeSignIgnored ==
    (IsCalled("calculate_snr_from_range") /\ last.args[1].s # 0 /\ Returned /\ SameLink)
    => LET other == snr_from_range(Neg(last.args[1]), last.args[2])
       IN  /\ other.res.outcome = last.outcome
           /\ other.res.value = last.value
           /\ other.locals = last.locals

C10_Witness ==
    /\ IsCalled("calculate_snr_from_range") /\ Returned /\ SameLink
    /\ last.args = <<Sci(-4, 3), Sci(1, 1)>>
    /\ Finite(last.value)
    /\ last.value = calculate_snr_from_range(Sci(4, 3), Sci(1, 1)).value

====
